---- MODULE Spec2Model ----
(***************************************************************************)
(* Variable-order Markov-chain text generator with backoff                 *)
(* (TEXTGENERATIONMC.ipynb): collect_dict builds the nested dictionary     *)
(* order -> context -> following words, get_next_word is the backoff       *)
(* search, generate_text the seeding / sample-and-slide loop / rendering.  *)
(*                                                                         *)
(* A token is a one-character string; a Python str (markov_text) is the    *)
(* sequence of its characters; a Python tuple or list is a sequence.       *)
(***************************************************************************)
EXTENDS Integers, Sequences, FiniteSets, TLC

VARIABLES tokens, n_grams, word_pairs, words, limit, min_length,
          first_key, markov_text, key_id, i, next_word, ret, probes, draws,
          pc, err

vars == <<tokens, n_grams, word_pairs, words, limit, min_length,
          first_key, markov_text, key_id, i, next_word, ret, probes, draws,
          pc, err>>

(* ------------------------------ bounds --------------------------------- *)
MaxCorpusLen == 4
MaxOrder == 2
MaxLimit == 4
MaxSupport == 2

(* ------------------------------ tokens --------------------------------- *)
Tokens == {"A", "b", "."}
UpperTokens == {"A"}
ScenarioTokens == <<"A", "b", "c", ".", "A", "b", "d", ".">>

RECURSIVE SeqsUpTo(_, _)
SeqsUpTo(S, n) ==
    IF n = 0 THEN {<<>>}
    ELSE LET shorter == SeqsUpTo(S, n - 1)
         IN  shorter \cup {Append(s, x) : s \in {t \in shorter : Len(t) = n - 1}, x \in S}

Corpora == SeqsUpTo(Tokens, MaxCorpusLen) \cup {ScenarioTokens}

Range(s) == {s[p] : p \in 1..Len(s)}

(* --------------------------- Python helpers ---------------------------- *)
\* range(a): the number of iterations, none when a <= 0
RangeLen(a) == IF a > 0 THEN a ELSE 0

\* s[a:b] for 0 <= a, clipped at len(s)
Slice(s, a, b) == SubSeq(s, a + 1, IF b > Len(s) THEN Len(s) ELSE b)

\* str.isupper() of the first character of a token
isupper(t) == t \in UpperTokens

\* ' '.join(key) for a tuple of one-character tokens
RECURSIVE Join(_)
Join(key) ==
    IF Len(key) = 0 THEN <<>>
    ELSE IF Len(key) = 1 THEN <<key[1]>>
    ELSE <<key[1], " ">> \o Join(Tail(key))

\* s.split(' '): the pieces between single spaces (empty pieces kept)
RECURSIVE Split(_)
Split(s) ==
    IF \A p \in 1..Len(s) : s[p] # " " THEN <<s>>
    ELSE LET q == CHOOSE p \in 1..Len(s) :
                      s[p] = " " /\ \A r \in 1..(p - 1) : s[r] # " "
         IN  <<SubSeq(s, 1, q - 1)>> \o Split(SubSeq(s, q + 1, Len(s)))

\* a replace whose pattern matches any character in front of the mark
\* (old is two characters; the first one is not compared)
RECURSIVE Replace_anychar(_, _, _)
Replace_anychar(s, old, new) ==
    IF Len(s) < Len(old) THEN s
    ELSE IF s[2] = old[2]
         THEN new \o Replace_anychar(SubSeq(s, Len(old) + 1, Len(s)), old, new)
         ELSE <<Head(s)>> \o Replace_anychar(Tail(s), old, new)

\* s.replace(old, new): leftmost non-overlapping occurrences, old non-empty
RECURSIVE Replace(_, _, _)
Replace(s, old, new) ==
    IF Len(s) < Len(old) THEN s
    ELSE IF SubSeq(s, 1, Len(old)) = old
         THEN new \o Replace(SubSeq(s, Len(old) + 1, Len(s)), old, new)
         ELSE <<Head(s)>> \o Replace(Tail(s), old, new)

\* one pass of the replace chain of generate_text
RenderPass(s) ==
    Replace(Replace(Replace(Replace(Replace(s,
        <<" ", ".">>, <<".">>), <<" ", ",">>, <<",">>), <<" ", "!">>, <<"!">>),
        <<" ", "?">>, <<"?">>), <<" ", ";">>, <<";">>)

\* the for loop over ['.', '?', '!', ','] runs the chain four times
Render(s) == RenderPass(RenderPass(RenderPass(RenderPass(s))))

(* ----------------------------- collect_dict ---------------------------- *)
\* a builder that takes the word right after the j-word key: words[i+j]
Successor_ij(ws, n, j, p) == ws[p + j + 1]

\* the word appended for the window starting at i (0-based): words[i+n_grams]
Successor(ws, n, j, p) == ws[p + n + 1]

\* a builder that overwrites the list of a key it has seen before
Insert_overwrite(d, key, succ) ==
    [k \in DOMAIN d \cup {key} |-> IF k = key THEN <<succ>> ELSE d[k]]

\* a builder that creates the list of a new key empty
Insert_empty(d, key, succ) ==
    IF key \in DOMAIN d
    THEN [d EXCEPT ![key] = Append(@, succ)]
    ELSE [k \in DOMAIN d \cup {key} |-> IF k = key THEN <<>> ELSE d[k]]

\* append to the list of a known key, create the list of a new one
Insert(d, key, succ) ==
    IF key \in DOMAIN d
    THEN [d EXCEPT ![key] = Append(@, succ)]
    ELSE [k \in DOMAIN d \cup {key} |-> IF k = key THEN <<succ>> ELSE d[k]]

\* sub_text_dict after the first cnt iterations of the inner loop
RECURSIVE sub_text_dict(_, _, _, _)
sub_text_dict(ws, n, j, cnt) ==
    IF cnt = 0 THEN <<>>
    ELSE LET d    == sub_text_dict(ws, n, j, cnt - 1)
             p    == cnt - 1
             key  == Slice(ws, p, p + j)
             succ == Successor(ws, n, j, p)
         IN  Insert(d, key, succ)

collect_dict(ws, n) ==
    [j \in 1..n |-> sub_text_dict(ws, n, j, RangeLen(Len(ws) - n))]

(* ----------------------------- generate_text --------------------------- *)
\* max(words.keys())
MaxKey(m) == CHOOSE k \in DOMAIN m : \A o \in DOMAIN m : o <= k

\* a seed filter that accepts every key
IsCapitalized_any(key) == TRUE

\* len(i[0]) > 0 and i[0][0].isupper(); a token is never empty
IsCapitalized(key) == isupper(key[1])

capitalized_keys(m) == {k \in DOMAIN m[MaxKey(m)] : IsCapitalized(k)}

\* the while condition of generate_text
LoopCond(text, lim) == Len(Split(text)) < lim

Init ==
    /\ tokens \in Corpora
    /\ n_grams \in 1..MaxOrder
    /\ word_pairs = <<>>
    /\ words = <<>>
    /\ limit = 0
    /\ min_length = 0
    /\ first_key = <<>>
    /\ markov_text = <<>>
    /\ key_id = <<>>
    /\ i = 0
    /\ next_word = ""
    /\ ret = "none"
    /\ probes = <<>>
    /\ draws = <<>>
    /\ pc = "cell"
    /\ err = "none"

\* the module-level cell: word_pairs = collect_dict(text, n_grams)
CollectDict ==
    /\ pc = "cell"
    /\ word_pairs' = collect_dict(tokens, n_grams)
    /\ pc' = "idle"
    /\ UNCHANGED <<tokens, n_grams, words, limit, min_length, first_key,
                   markov_text, key_id, i, next_word, ret, probes, draws, err>>

\* generate_text(m, lim, minl) up to the first test of the while
GenerateTextCall(m) ==
    /\ pc \in {"idle", "done", "error"}
    /\ \E lim \in 1..MaxLimit, minl \in 1..MaxSupport :
        /\ words' = m
        /\ limit' = lim
        /\ min_length' = minl
        /\ next_word' = ""
        /\ ret' = "none"
        /\ probes' = <<>>
        /\ draws' = <<>>
        /\ i' = 0
        /\ IF capitalized_keys(m) = {}
           THEN /\ pc' = "error"
                /\ err' = "IndexError"
                /\ first_key' = <<>>
                /\ markov_text' = <<>>
                /\ key_id' = <<>>
           ELSE \E fk \in capitalized_keys(m) :
                /\ first_key' = fk
                /\ markov_text' = Join(fk)
                /\ key_id' = fk
                /\ err' = "none"
                /\ pc' = IF LoopCond(Join(fk), lim) THEN "probe" ELSE "render"
    /\ UNCHANGED <<tokens, n_grams, word_pairs>>

\* the notebook's call: generate_text(word_pairs, lim, minl)
GenerateText == GenerateTextCall(word_pairs)

\* a support test that rejects a list of exactly min_length words
HasSupport_strict(following, minl) == Len(following) > minl

\* the support test of the backoff probe
HasSupport(following, minl) == Len(following) >= minl

\* a probe that never shortens the key
Shorten_never(key) == key

\* key_id after one unsuccessful probe: key_id[1:] while longer than one word
Shorten(key) == IF Len(key) > 1 THEN Tail(key) ELSE key

\* a draw that removes the chosen word from its list (list.pop)
AfterChoice_pop(m, k, key, idx) ==
    [m EXCEPT ![k][key] = SubSeq(@, 1, idx - 1) \o SubSeq(@, idx + 1, Len(@))]

\* the model after random.choice(word_pairs[k][key]) returned its idx-th
\* word: random.choice only reads the list
AfterChoice(m, k, key, idx) == m

\* one iteration of the for loop of get_next_word(first_key, min_length)
Probe ==
    /\ pc = "probe"
    /\ LET table == word_pairs[Len(key_id)]
       IN  IF key_id \in DOMAIN table /\ HasSupport(table[key_id], min_length)
           THEN \E idx \in 1..Len(table[key_id]) :
                /\ next_word' = table[key_id][idx]
                /\ draws' = Append(draws, <<idx, Len(table[key_id])>>)
                /\ word_pairs' = AfterChoice(word_pairs, Len(key_id), key_id, idx)
                /\ ret' = "found"
                /\ pc' = "slide"
                /\ UNCHANGED <<key_id, i>>
           ELSE /\ key_id' = Shorten(key_id)
                /\ i' = i + 1
                /\ pc' = IF i + 1 < Len(first_key) THEN "probe" ELSE "fallback"
                /\ UNCHANGED <<next_word, draws, ret, word_pairs>>
    /\ probes' = Append(probes, Len(key_id))
    /\ UNCHANGED <<tokens, n_grams, words, limit, min_length,
                   first_key, markov_text, err>>

\* the return after the for loop of get_next_word
Fallback ==
    /\ pc = "fallback"
    /\ LET table == word_pairs[Len(key_id)]
       IN  IF key_id \in DOMAIN table
           THEN IF Len(table[key_id]) = 0
                THEN /\ pc' = "error"
                     /\ err' = "IndexError"
                     /\ UNCHANGED <<next_word, draws, ret, word_pairs>>
                ELSE \E idx \in 1..Len(table[key_id]) :
                     /\ next_word' = table[key_id][idx]
                     /\ draws' = Append(draws, <<idx, Len(table[key_id])>>)
                     /\ word_pairs' = AfterChoice(word_pairs, Len(key_id), key_id, idx)
                     /\ ret' = "fallback"
                     /\ pc' = "slide"
                     /\ err' = err
           ELSE /\ pc' = "error"
                /\ err' = "KeyError"
                /\ UNCHANGED <<next_word, draws, ret, word_pairs>>
    /\ UNCHANGED <<tokens, n_grams, words, limit, min_length,
                   first_key, markov_text, key_id, i, probes>>

\* a slide that drops the newest word of the key instead of the oldest
SlideKey_droplast(key, w) == SubSeq(key, 1, Len(key) - 1) \o <<w>>

\* first_key = tuple(first_key[1:]) + tuple([next_word])
SlideKey(key, w) == Tail(key) \o <<w>>

\* the rest of the while body, and the next test of the while
Slide ==
    /\ pc = "slide"
    /\ first_key' = SlideKey(first_key, next_word)
    /\ markov_text' = markov_text \o <<" ", next_word>>
    /\ key_id' = first_key'
    /\ i' = 0
    /\ probes' = <<>>
    /\ ret' = "none"
    /\ pc' = IF LoopCond(markov_text', limit) THEN "probe" ELSE "render"
    /\ UNCHANGED <<tokens, n_grams, word_pairs, words, limit, min_length,
                   next_word, draws, err>>

\* the punctuation replaces and the return of generate_text
RenderText ==
    /\ pc = "render"
    /\ markov_text' = Render(markov_text)
    /\ pc' = "done"
    /\ UNCHANGED <<tokens, n_grams, word_pairs, words, limit, min_length,
                   first_key, key_id, i, next_word, ret, probes, draws, err>>

Next == CollectDict \/ GenerateText \/ Probe \/ Fallback \/ Slide \/ RenderText

Spec == Init /\ [][Next]_vars

(* ------------- generate_text called with a model of its own ------------ *)
\* the longest corpus of a model that is passed to generate_text directly
MaxOtherLen == 3

OtherCorpora == SeqsUpTo(Tokens, MaxOtherLen)

InitApi == Init /\ tokens \in OtherCorpora

\* generate_text(collect_dict(other, n_grams), lim, minl): the argument is a
\* model built by another collect_dict call, word_pairs is still the
\* module-level one
GenerateTextOther ==
    \E other \in OtherCorpora : GenerateTextCall(collect_dict(other, n_grams))

NextApi == Next \/ GenerateTextOther

SpecApi == InitApi /\ [][NextApi]_vars

(* ------------------- rendering of an accumulated text ------------------ *)
\* the number of words of the longest text that is rendered
MaxRenderLen == 3

\* words of the text: non-empty, without spaces, of one or two characters
RenderWords ==
    {<<"a">>, <<".">>, <<",">>, <<"!">>, <<"?">>, <<";">>,
     <<"a", "b">>, <<"a", ".">>, <<".", "a">>, <<".", ".">>}

\* a text that starts with any word and is to grow to limit words
InitRender ==
    /\ limit \in 1..MaxRenderLen
    /\ markov_text \in RenderWords
    /\ pc = IF LoopCond(markov_text, limit) THEN "text" ELSE "render"
    /\ tokens = <<>>
    /\ n_grams = 1
    /\ word_pairs = <<>>
    /\ words = <<>>
    /\ min_length = 1
    /\ first_key = <<>>
    /\ key_id = <<>>
    /\ i = 0
    /\ next_word = ""
    /\ ret = "none"
    /\ probes = <<>>
    /\ draws = <<>>
    /\ err = "none"

\* markov_text += ' ' + next_word for any word, and the next test of the while
AppendWord ==
    /\ pc = "text"
    /\ \E w \in RenderWords : markov_text' = markov_text \o <<" ">> \o w
    /\ pc' = IF LoopCond(markov_text', limit) THEN "text" ELSE "render"
    /\ UNCHANGED <<tokens, n_grams, word_pairs, words, limit, min_length,
                   first_key, key_id, i, next_word, ret, probes, draws, err>>

NextRender == AppendWord \/ RenderText

SpecRender == InitRender /\ [][NextRender]_vars

TypeOK ==
    /\ pc \in {"cell", "idle", "probe", "fallback", "slide", "render", "done",
               "error", "text"}
    /\ err \in {"none", "IndexError", "KeyError"}
    /\ ret \in {"none", "found", "fallback"}

(* ------------------------------ properties ----------------------------- *)
\* the start positions of the training windows: 0 .. len(tokens) - N - 1
Positions == 0..(Len(tokens) - n_grams - 1)

\* the positions whose j-word window is the context c
Occurrences(c, j) == {p \in Positions : SubSeq(tokens, p + 1, p + j) = c}

\* the r-th smallest element of a finite set of integers
Nth(M, r) == CHOOSE p \in M : Cardinality({q \in M : q < p}) = r - 1

\* tokens[p + N] over the occurrences p of c, in increasing order of p
FollowingOf(c, j) ==
    [r \in 1..Cardinality(Occurrences(c, j)) |->
        tokens[Nth(Occurrences(c, j), r) + n_grams + 1]]

\* C1: once built from more than N tokens, table j has exactly the keys
\* tokens[p..p+j) for the window positions p, and the list of each key is
\* the sequence of tokens[p+N] over its occurrences p in increasing order,
\* duplicates retained (the successor position is p+N for every order j).
C1_BuilderResult ==
    (pc # "cell" /\ Len(tokens) > n_grams) =>
        /\ DOMAIN word_pairs = 1..n_grams
        /\ \A j \in 1..n_grams :
            /\ DOMAIN word_pairs[j] =
                   {SubSeq(tokens, p + 1, p + j) : p \in Positions}
            /\ \A c \in DOMAIN word_pairs[j] :
                   word_pairs[j][c] = FollowingOf(c, j)

\* a model of order >= 2 whose order-1 table has a key seen more than once,
\* with successors that differ from the words right after the key
C1_Witness ==
    /\ pc = "idle"
    /\ Len(tokens) > n_grams
    /\ n_grams >= 2
    /\ \E c \in DOMAIN word_pairs[1] :
        /\ Len(word_pairs[1][c]) >= 2
        /\ \E p \in Occurrences(c, 1) : tokens[p + 2] # tokens[p + n_grams + 1]

\* the trailing k tokens of a context
Trailing(ctx, k) == SubSeq(ctx, Len(ctx) - k + 1, Len(ctx))

\* the orders whose table has the trailing context with enough support
SupportedOrders(ctx) ==
    {k \in 1..Len(ctx) :
        /\ Trailing(ctx, k) \in DOMAIN word_pairs[k]
        /\ Len(word_pairs[k][Trailing(ctx, k)]) >= min_length}

MaxOf(S) == CHOOSE k \in S : \A o \in S : o <= k

\* C2: when get_next_word has returned for a context that has a supported
\* order, the word was drawn at the largest supported order k, from the
\* list of the trailing k tokens in table k (a list of exactly min_length
\* words counts as supported), not from a lower order nor the fallback.
C2_BackoffSelection ==
    (pc = "slide" /\ SupportedOrders(first_key) # {}) =>
        LET k == MaxOf(SupportedOrders(first_key))
        IN  /\ ret = "found"
            /\ key_id = Trailing(first_key, k)
            /\ probes[Len(probes)] = k
            /\ next_word \in Range(word_pairs[k][key_id])
            /\ Len(word_pairs[k][key_id]) >= min_length

\* a word found after backing off, in a list of exactly min_length words
C2_Witness ==
    /\ pc = "slide"
    /\ ret = "found"
    /\ Len(key_id) < Len(first_key)
    /\ Len(word_pairs[Len(key_id)][key_id]) = min_length

\* C3: a word returned by the terminal fallback is sampled from the
\* order-N list of the original full-length context, not from the list of
\* a truncated context.
C3_FallbackOriginal ==
    (pc = "slide" /\ ret = "fallback") =>
        /\ first_key \in DOMAIN word_pairs[Len(first_key)]
        /\ next_word \in Range(word_pairs[Len(first_key)][first_key])

\* the one-character tokens of a text of words joined by single spaces
TokensOf(text) == LET sp == Split(text) IN [p \in 1..Len(sp) |-> sp[p][1]]

\* the output tokens of the text accumulated by the loop (before rendering)
OutputTokens == TokensOf(markov_text)

\* C4: when the loop of generate_text has ended, the output has exactly
\* limit tokens (for limit <= N: the seed truncated to limit tokens).
C4_OutputLength ==
    pc = "render" => Len(Split(markov_text)) = limit

\* C5: with a corpus longer than N that has a capitalized order-N key, no
\* iteration of the generation loop fails in the backoff search.
C5_NoIterationFails ==
    (pc # "cell" /\ Len(tokens) > n_grams
        /\ \E k \in DOMAIN word_pairs[n_grams] : isupper(k[1]))
    => ~(pc = "error" /\ err = "KeyError")

\* C6: during generation the current context is a key of the order-N table.
C6_ContextInModel ==
    pc \in {"probe", "fallback", "slide", "render"} =>
        first_key \in DOMAIN word_pairs[n_grams]

\* no key of the order-N table starts with an uppercase token
NoCapitalizedKey == \A k \in DOMAIN word_pairs[n_grams] : k[1] \notin UpperTokens

\* generate_text has been called and has not returned the rendered text
InCall == pc \in {"probe", "fallback", "slide", "render"}

\* C7: generate_text fails at seed selection, with no output, exactly when
\* the order-N table has no key starting with an uppercase token; otherwise
\* the first N output tokens are a key of the order-N table that starts
\* with an uppercase token, and a returned text starts with an uppercase one.
C7_SeedConstraint ==
    /\ pc \notin {"cell", "idle"} =>
        /\ NoCapitalizedKey <=> (pc = "error" /\ err = "IndexError")
        /\ NoCapitalizedKey => (markov_text = <<>> /\ draws = <<>>)
    /\ InCall =>
        /\ Len(OutputTokens) >= n_grams
        /\ SubSeq(OutputTokens, 1, n_grams) \in DOMAIN word_pairs[n_grams]
        /\ OutputTokens[1] \in UpperTokens
    /\ pc = "done" => markov_text[1] \in UpperTokens

\* the seed selection fails on a model that has keys, all of them lowercase
C7_Witness ==
    /\ pc = "error"
    /\ err = "IndexError"
    /\ DOMAIN word_pairs[n_grams] # {}
    /\ markov_text = <<>>

\* C8: from a corpus of at most N tokens no model is ever built.
C8_InsufficientCorpus ==
    Len(tokens) <= n_grams => (word_pairs = <<>> /\ pc = "cell")

\* every draw of the current call picked the last candidate
AllLast == \A d \in 1..Len(draws) : draws[d][1] = draws[d][2]

Scenario ==
    /\ tokens = ScenarioTokens
    /\ n_grams = 2
    /\ pc # "cell"

ScenarioCall ==
    /\ Scenario
    /\ limit = 4
    /\ min_length = 1
    /\ AllLast

\* C9: for the corpus A b c . A b d . with N = 2 the order-2 table maps
\* (A, b) to [c, d]; with min_length 1, limit 4 and a random source that
\* always picks the last candidate, the loop ends with the tokens
\* A b d . and the returned text is "A b d.".
C9_ConcreteScenario ==
    /\ Scenario => word_pairs[2][<<"A", "b">>] = <<"c", "d">>
    /\ (ScenarioCall /\ InCall) => SubSeq(OutputTokens, 1, 2) = <<"A", "b">>
    /\ (ScenarioCall /\ pc = "render") => OutputTokens = <<"A", "b", "d", ".">>
    /\ (ScenarioCall /\ pc = "done") =>
           markov_text = <<"A", " ", "b", " ", "d", ".">>

\* the scenario's call has returned after two last-candidate draws
C9_Witness ==
    /\ ScenarioCall
    /\ pc = "done"
    /\ Len(draws) = 2

C11_RenderIdempotent ==
    pc = "done" => Render(markov_text) = markov_text

\* a rendered text of limit words from which at least two spaces were removed
C11_Witness ==
    /\ pc = "done"
    /\ limit >= 3
    /\ Len(Split(markov_text)) + 2 <= limit

\* C12: once the model is built, every key of every table of order 1..N
\* maps to a list of at least one word.
C12_TableCompleteness ==
    pc # "cell" =>
        \A j \in DOMAIN word_pairs : \A c \in DOMAIN word_pairs[j] :
            Len(word_pairs[j][c]) >= 1

\* a built model of order >= 2 whose tables have several keys, one of them
\* seen once and one seen more than once
C12_Witness ==
    /\ pc = "idle"
    /\ n_grams >= 2
    /\ \E c1, c2 \in DOMAIN word_pairs[1] :
        /\ Len(word_pairs[1][c1]) = 1
        /\ Len(word_pairs[1][c2]) >= 2
    /\ Cardinality(DOMAIN word_pairs[n_grams]) >= 2

\* C13: once built, the model is never changed: no step of generate_text
\* (seed selection, probe, draw, slide, rendering) alters a key or a list of
\* word_pairs, and the model in use stays the one collect_dict returned.
C13_ModelReadOnly ==
    [][pc # "cell" =>
          (word_pairs' = word_pairs /\ word_pairs' = collect_dict(tokens, n_grams))]_vars

\* a call that made two draws, from a model with a list of several words,
\* has returned
C13_Witness ==
    /\ pc = "done"
    /\ Len(draws) >= 2
    /\ \E j \in DOMAIN word_pairs : \E c \in DOMAIN word_pairs[j] :
           Len(word_pairs[j][c]) >= 2

\* C14: every word that generate_text samples after the seed comes from a
\* following-list of the model passed as its argument.
C14_SampledFromArgument ==
    pc = "slide" =>
        \E j \in DOMAIN words : \E c \in DOMAIN words[j] :
            next_word \in Range(words[j][c])

IsPrefix(a, b) == Len(a) <= Len(b) /\ SubSeq(b, 1, Len(a)) = a

\* C15: whenever a step leaves generate_text inside its loop (at the start
\* of an iteration in particular), the context has exactly N tokens and they
\* are the last N tokens of the accumulated output; while the loop runs the
\* accumulated text only grows at its end.
C15_SlidingWindow ==
    [][LET before == OutputTokens
           after  == TokensOf(markov_text')
       IN  /\ InCall' =>
                /\ Len(first_key') = n_grams'
                /\ Len(after) >= n_grams'
                /\ first_key' = SubSeq(after, Len(after) - n_grams' + 1, Len(after))
           /\ (InCall /\ InCall') =>
                /\ IsPrefix(markov_text, markov_text')
                /\ IsPrefix(before, after)
                /\ Len(after) <= Len(before) + 1]_vars

\* the start of a later iteration of a call on a model of order >= 2: the
\* context has slid and holds a sampled word
C15_Witness ==
    /\ pc = "probe"
    /\ probes = <<>>
    /\ n_grams >= 2
    /\ Len(draws) >= 1
    /\ first_key[Len(first_key)] = next_word
    /\ Len(OutputTokens) = n_grams + Len(draws)
====
